---- MODULE Spec2Model ----
(***************************************************************************)
(* The Raven stream lexer (ravenParser) and the line-scanning driver that  *)
(* feeds it, as a state machine.  Stream positions are 0-based as in the   *)
(* source; a line is a sequence of one-character strings, so the character *)
(* at stream position p is line[p + 1].                                    *)
(***************************************************************************)
EXTENDS Integers, Sequences, FiniteSets

VARIABLES
  line,     \* stream.string: the line being tokenized
  pos,      \* stream.pos
  start,    \* stream.start: where the last token call began
  state,    \* the RavenState threaded through every call
  style,    \* what the last token call returned ("null" for null)
  op,       \* the last operation: "start", "newline", "blankLine", "token",
            \* "endLine"
  prev,     \* history: the RavenState as it was before the last operation
  sigma,    \* the character set and line-length bound of the document
  depth,    \* history: brackets opened and not yet closed (bracket tokens)
  saved,    \* history: macroLocked as it was when each open bracket was read
  surplus,  \* history: a closing bracket arrived with no bracket open
  matched,  \* history: <<b>> when the last token was a closing bracket whose
            \* opening bracket was read with macroLocked = b, else <<>>
  calls,    \* history: the token calls made on this line
  lock      \* history: for each bracket level now open, outermost first,
            \* whether a keyword was read at that level since the last
            \* statement boundary there; atCall is the value the last token
            \* call met, now the value after the last operation

vars ==
  <<line, pos, start, state, style, op, prev, sigma, depth, saved, surplus,
    matched, calls, lock>>

\* ------------------------------------------------------------------ bounds

\* the longest line, and the deepest bracket nesting, of each document class
LenBroad == 2

DepthBroad == 1

LenStr == 4

DepthStr == 1

LenBr == 3

DepthBr == 2

LenKw == 4

DepthKw == 1

LenLock == 5

DepthLock == 1

LenLockNest == 4

LenOps == 3

LenInert == 3

DepthInert == 1

DepthOps == 1

DepthLockNest == 2

\* ------------------------------------------------------- character classes

LowerCase ==
  {"a","b","c","d","e","f","g","h","i","j","k","l","m",
   "n","o","p","q","r","s","t","u","v","w","x","y","z"}

UpperCase ==
  {"A","B","C","D","E","F","G","H","I","J","K","L","M",
   "N","O","P","Q","R","S","T","U","V","W","X","Y","Z"}

Digits == {"0","1","2","3","4","5","6","7","8","9"}

HexDigits == Digits \cup {"a","b","c","d","e","f","A","B","C","D","E","F"}

identifierStart == LowerCase \cup UpperCase \cup {"_"}

identifierPart == LowerCase \cup UpperCase \cup Digits \cup {"_", "!", "?"}

operatorChars == {"=", "!", "<", ">", "+", "-", "*", "/", "^", ":", "&", "|"}

openers == {"(", "[", "{"}

delimiters == {"(", ")", "[", "]", "{", "}"}

statementTerminators == {",", ")", "]", "}", "#"}

multiCharOps == << <<".", ".", ".">> >>

\* mutant: the list of paired operators lacks &&
pairedOps_NoAndAnd ==
  << <<"=", "=">>, <<"!", "=">>, <<">", "=">>, <<"<", "=">>, <<"|", "|">>,
     <<"|", ">">> >>

pairedOps ==
  << <<"=","=">>, <<"!","=">>, <<">","=">>, <<"<","=">>,
     <<"&","&">>, <<"|","|">>, <<"|",">">> >>

singleOps == <<"=", "+", "-", "*", "/", "^", ">", "<", ":", "&", "|">>

\* the backtick, which a TLA+ string literal cannot hold
BackTick == "BACKTICK"

DoubleQuote == "\""

Quotes == {DoubleQuote, BackTick}

BackSlash == "\\"

\* /[\s ]/ restricted to the characters a line can hold
WhiteSpace == {" ", "\t", "\r", "\f"}

\* ------------------------------------------------------ StringStream calls

\* stream.eol()
eol(l, p) == p >= Len(l)

\* stream.sol()
sol(p) == p = 0

\* stream.peek(), and stream.string[i]; "" stands for undefined
charAt(l, p) == IF p >= 0 /\ p < Len(l) THEN l[p + 1] ELSE ""

\* stream.match(pattern) for a string pattern
matchStr(l, p, pat) ==
  /\ p + Len(pat) <= Len(l)
  /\ SubSeq(l, p + 1, p + Len(pat)) = pat

\* the length of the longest run of characters of S that starts at p
\* (eatWhile, eatSpace, and the greedy x* / x+ of the regular expressions)
RECURSIVE runLen(_, _, _)
runLen(l, p, S) ==
  IF p < Len(l) /\ l[p + 1] \in S THEN 1 + runLen(l, p + 1, S) ELSE 0

\* "\\".repeat(n)
RECURSIVE repeatSlash(_)
repeatSlash(n) == IF n <= 0 THEN <<>> ELSE <<BackSlash>> \o repeatSlash(n - 1)

Max(a, b) == IF a >= b THEN a ELSE b

Min(a, b) == IF a <= b THEN a ELSE b

\* ----------------------------------------------------------------- state

\* state.string = null
NoString ==
  [open |-> FALSE, quote |-> "", slashes |-> 0, raw |-> FALSE,
   close |-> <<>>, escape |-> <<>>]

startState ==
  [string |-> NoString,
   exprStart |-> TRUE,
   macroEligible |-> TRUE,
   afterDot |-> FALSE,
   inSwap |-> FALSE,
   macroLocked |-> FALSE,
   macroLockStack |-> <<>>]

\* mutant: a blank line leaves macroLocked as it is
blankLine_KeepLock(st) ==
  [st EXCEPT !.exprStart = TRUE, !.macroEligible = TRUE, !.afterDot = FALSE,
             !.inSwap = FALSE]

blankLine(st) ==
  [st EXCEPT !.exprStart = TRUE, !.macroEligible = TRUE, !.afterDot = FALSE,
             !.inSwap = FALSE, !.macroLocked = FALSE]

\* mutant: setting the flags also releases the macro lock
setFlags_Unlock(st, e, m) ==
  [st EXCEPT !.exprStart = e, !.macroEligible = m, !.afterDot = FALSE,
             !.inSwap = FALSE, !.macroLocked = FALSE]

\* the assignments every branch of token ends with
setFlags(st, e, m) ==
  [st EXCEPT !.exprStart = e, !.macroEligible = m, !.afterDot = FALSE,
             !.inSwap = FALSE]

Result(p, st, sty) == [pos |-> p, st |-> st, style |-> sty]

\* ---------------------------------------------------------------- strings

\* /^(\\*)(["BACKTICK])/.test(source), source = stream.string.slice(p)
\* mutant: backslashes before the quote are not part of a string start
isStringStart_QuoteOnly(l, p) == charAt(l, p) \in Quotes

isStringStart(l, p) == charAt(l, p + runLen(l, p, {BackSlash})) \in Quotes

\* mutant: no quote makes a raw string
isRaw_Never(quote) == FALSE

isRaw(quote) == quote = BackTick

\* mutant: the close sequence without the backslashes
closeSeq_QuoteOnly(quote, slashes) == <<quote>>

closeSeq(quote, slashes) == <<quote>> \o repeatSlash(slashes)

\* null is the empty sequence
escapeSeq(raw, slashes) == IF raw THEN <<>> ELSE repeatSlash(Max(1, slashes))

newStringState(quote, slashes) ==
  [open |-> TRUE, quote |-> quote, slashes |-> slashes, raw |-> isRaw(quote),
   close |-> closeSeq(quote, slashes),
   escape |-> escapeSeq(isRaw(quote), slashes)]

\* style "null" stands for the null result (no string starts here)
startString(l, p, st) ==
  LET slashes == runLen(l, p, {BackSlash})
      quote == charAt(l, p + slashes)
  IN IF quote \notin Quotes
       THEN Result(p, st, "null")
       ELSE Result(p + slashes + 1,
                   [setFlags(st, FALSE, FALSE) EXCEPT
                      !.string = newStringState(quote, slashes)],
                   "open")

\* mutant: an escape sequence is consumed without the character after it
stringStep_EscapeOnly(l, p, info) ==
  IF matchStr(l, p, info.close)
    THEN [pos |-> p + Len(info.close), closed |-> TRUE]
  ELSE IF ~info.raw /\ info.escape # <<>> /\ matchStr(l, p, info.escape)
    THEN [pos |-> p + Len(info.escape), closed |-> FALSE]
  ELSE [pos |-> p + 1, closed |-> FALSE]

\* one iteration of the readString loop at p, p not at the end of the line
stringStep(l, p, info) ==
  IF matchStr(l, p, info.close)
    THEN [pos |-> p + Len(info.close), closed |-> TRUE]
  ELSE IF ~info.raw /\ info.escape # <<>> /\ matchStr(l, p, info.escape)
    THEN [pos |-> Min(p + Len(info.escape) + 1, Len(l)), closed |-> FALSE]
  ELSE [pos |-> p + 1, closed |-> FALSE]

RECURSIVE readString_Unlocks(_, _, _)
\* mutant: the end of a string is a statement boundary that clears macroLocked
readString_Unlocks(l, p, st) ==
  IF eol(l, p) THEN Result(p, st, "string")
  ELSE LET s == stringStep(l, p, st.string)
       IN IF s.closed
            THEN Result(s.pos,
                        [st EXCEPT !.string = NoString, !.exprStart = FALSE,
                                   !.macroEligible = FALSE,
                                   !.macroLocked = FALSE],
                        "string")
            ELSE readString_Unlocks(l, s.pos, st)

RECURSIVE readString(_, _, _)
readString(l, p, st) ==
  IF eol(l, p) THEN Result(p, st, "string")
  ELSE LET s == stringStep(l, p, st.string)
       IN IF s.closed
            THEN Result(s.pos,
                        [st EXCEPT !.string = NoString, !.exprStart = FALSE,
                                   !.macroEligible = FALSE],
                        "string")
            ELSE readString(l, s.pos, st)

\* ---------------------------------------------------------------- numbers

\* the length matched at p by /\d+(?:\.\d*)?/, 0 for no match
decimalLen(l, p) ==
  LET d == runLen(l, p, Digits)
  IN IF d = 0 THEN 0
     ELSE IF charAt(l, p + d) = "." THEN d + 1 + runLen(l, p + d + 1, Digits)
     ELSE d

\* the length matched at p by /0x[0-9a-fA-F]+/, 0 for no match
hexLen(l, p) ==
  IF charAt(l, p) = "0" /\ charAt(l, p + 1) = "x" /\ runLen(l, p + 2, HexDigits) > 0
    THEN 2 + runLen(l, p + 2, HexDigits)
    ELSE 0

\* the length matched at p by /-\d+(?:\.\d*)?/, 0 for no match
signedLen(l, p) ==
  IF charAt(l, p) = "-" /\ decimalLen(l, p + 1) > 0
    THEN 1 + decimalLen(l, p + 1)
    ELSE 0

\* the length matched at p by /\.\d+/, 0 for no match
dotLen(l, p) ==
  IF charAt(l, p) = "." /\ runLen(l, p + 1, Digits) > 0
    THEN 1 + runLen(l, p + 1, Digits)
    ELSE 0

\* mutant: a signed literal is matched whatever exprStart is
readNumber_SignedAnywhere(l, p, st) ==
  IF hexLen(l, p) > 0
    THEN Result(p + hexLen(l, p), setFlags(st, FALSE, FALSE), "number")
  ELSE IF signedLen(l, p) > 0
    THEN Result(p + signedLen(l, p), setFlags(st, FALSE, FALSE), "number")
  ELSE IF decimalLen(l, p) > 0
    THEN Result(p + decimalLen(l, p), setFlags(st, FALSE, FALSE), "number")
  ELSE IF st.exprStart /\ dotLen(l, p) > 0
    THEN Result(p + dotLen(l, p), setFlags(st, FALSE, FALSE), "number")
  ELSE Result(p, st, "null")

readNumber(l, p, st) ==
  IF hexLen(l, p) > 0
    THEN Result(p + hexLen(l, p), setFlags(st, FALSE, FALSE), "number")
  ELSE IF st.exprStart /\ signedLen(l, p) > 0
    THEN Result(p + signedLen(l, p), setFlags(st, FALSE, FALSE), "number")
  ELSE IF decimalLen(l, p) > 0
    THEN Result(p + decimalLen(l, p), setFlags(st, FALSE, FALSE), "number")
  ELSE IF st.exprStart /\ dotLen(l, p) > 0
    THEN Result(p + dotLen(l, p), setFlags(st, FALSE, FALSE), "number")
  ELSE Result(p, st, "null")

\* ------------------------------------------------------------ identifiers

\* ch = "" stands for undefined
peekNonSpace(l, p) ==
  LET i == p + runLen(l, p, {" ", "\t", "\r"})
  IN IF i >= Len(l) THEN [ch |-> "", pos |-> Len(l)]
     ELSE IF l[i + 1] = "#" THEN [ch |-> "", pos |-> i]
     ELSE [ch |-> l[i + 1], pos |-> i]

\* mutant: a minus sign begins an argument whatever follows it
isArgStart_AnyMinus(l, next) ==
  LET ch == next.ch
      np == next.pos
  IN IF ch = "" THEN FALSE
     ELSE IF ch \in identifierStart \/ ch \in Digits THEN TRUE
     ELSE IF ch = "." /\ charAt(l, np + 1) \in Digits THEN TRUE
     ELSE IF ch \in {"(", "[", "{", "@"} THEN TRUE
     ELSE IF ch \in Quotes THEN TRUE
     ELSE IF ch = BackSlash THEN isStringStart(l, np)
     ELSE IF ch = "&" THEN TRUE
     ELSE IF ch = "-" THEN TRUE
     ELSE FALSE

isArgStart(l, next) ==
  LET ch == next.ch
      np == next.pos
  IN IF ch = "" THEN FALSE
     ELSE IF ch \in identifierStart \/ ch \in Digits THEN TRUE
     ELSE IF ch = "." /\ charAt(l, np + 1) \in Digits THEN TRUE
     ELSE IF ch \in {"(", "[", "{", "@"} THEN TRUE
     ELSE IF ch \in Quotes THEN TRUE
     ELSE IF ch = BackSlash THEN isStringStart(l, np)
     ELSE IF ch = "&" THEN TRUE
     ELSE IF ch = "-" /\ charAt(l, np + 1) \in Digits THEN TRUE
     ELSE FALSE

\* mutant: no check for a string that starts right after the identifier
shouldKeyword_NoStringCheck(l, p, st) ==
  IF ~st.exprStart \/ ~st.macroEligible \/ st.afterDot \/ st.inSwap \/ st.macroLocked
    THEN FALSE
  ELSE IF charAt(l, p) \in {"(", "[", "."} THEN FALSE
  ELSE LET next == peekNonSpace(l, p)
       IN IF next.ch = "" \/ next.ch \in statementTerminators THEN FALSE
          ELSE isArgStart(l, next)

shouldKeyword(l, p, st) ==
  IF ~st.exprStart \/ ~st.macroEligible \/ st.afterDot \/ st.inSwap \/ st.macroLocked
    THEN FALSE
  ELSE IF charAt(l, p) \in {"(", "[", "."} THEN FALSE
  ELSE IF charAt(l, p) # "" /\ isStringStart(l, p) THEN FALSE
  ELSE LET next == peekNonSpace(l, p)
       IN IF next.ch = "" \/ next.ch \in statementTerminators THEN FALSE
          ELSE isArgStart(l, next)

\* ------------------------------------------------------------- dispatcher

\* mutant: the line-start reset also empties the lock stack
lineStart_ClearStack(p, st) ==
  IF sol(p)
    THEN [st EXCEPT !.exprStart = TRUE, !.macroEligible = TRUE,
                    !.afterDot = FALSE, !.inSwap = FALSE, !.macroLocked = FALSE,
                    !.macroLockStack = <<>>]
    ELSE st

\* the reset of token at the start of a line
lineStart(p, st) ==
  IF sol(p)
    THEN [st EXCEPT !.exprStart = TRUE, !.macroEligible = TRUE,
                    !.afterDot = FALSE, !.inSwap = FALSE, !.macroLocked = FALSE]
    ELSE st

\* the assignments of the comment and comma branches
statementBoundary(st) ==
  [st EXCEPT !.exprStart = TRUE, !.macroEligible = TRUE, !.afterDot = FALSE,
             !.inSwap = FALSE, !.macroLocked = FALSE]

\* mutant: macroLocked is cleared before it is pushed
pushLock_ClearFirst(st) ==
  [st EXCEPT !.macroLockStack = Append(@, FALSE), !.macroLocked = FALSE]

\* state.macroLockStack.push(state.macroLocked); state.macroLocked = false
pushLock(st) ==
  [st EXCEPT !.macroLockStack = Append(@, st.macroLocked),
             !.macroLocked = FALSE]

\* mutant: an empty stack leaves macroLocked as it is
popLock_KeepOnEmpty(st) ==
  IF st.macroLockStack = <<>>
    THEN st
    ELSE [st EXCEPT !.macroLocked = st.macroLockStack[Len(st.macroLockStack)],
                    !.macroLockStack = SubSeq(@, 1, Len(@) - 1)]

\* state.macroLocked = state.macroLockStack.pop() ?? false
popLock(st) ==
  IF st.macroLockStack = <<>>
    THEN [st EXCEPT !.macroLocked = FALSE]
    ELSE [st EXCEPT !.macroLocked = st.macroLockStack[Len(st.macroLockStack)],
                    !.macroLockStack = SubSeq(@, 1, Len(@) - 1)]

bracketToken(l, p, st) ==
  LET open == charAt(l, p) \in openers
  IN Result(p + 1,
            setFlags(IF open THEN pushLock(st) ELSE popLock(st), open, open),
            "bracket")

\* for (const op of ops) if (stream.match(op)) ...
matchesAny(l, p, ops) == \E i \in 1..Len(ops) : matchStr(l, p, ops[i])

\* mutant: a swap reference also sets exprStart and macroEligible
ampersandToken_ResetFlags(l, p, st) ==
  LET nxt == charAt(l, p + 1)
  IN Result(p + 1,
            IF nxt # "&" /\ nxt # "" /\ nxt \in identifierStart
              THEN [st EXCEPT !.inSwap = TRUE, !.exprStart = TRUE,
                              !.macroEligible = TRUE, !.afterDot = FALSE]
              ELSE [st EXCEPT !.exprStart = TRUE, !.macroEligible = TRUE,
                              !.afterDot = FALSE],
            "operator")

ampersandToken(l, p, st) ==
  LET nxt == charAt(l, p + 1)
  IN Result(p + 1,
            IF nxt # "&" /\ nxt # "" /\ nxt \in identifierStart
              THEN [st EXCEPT !.inSwap = TRUE, !.afterDot = FALSE]
              ELSE [st EXCEPT !.exprStart = TRUE, !.macroEligible = TRUE,
                              !.afterDot = FALSE],
            "operator")

\* mutant: a member-access dot opens an expression like an operator
dotToken_OpensExpression(l, p, st) ==
  IF charAt(l, p + 1) = "."
    THEN Result(p + 1, setFlags(st, FALSE, FALSE), "operator")
    ELSE Result(p + 1,
                [st EXCEPT !.afterDot = FALSE, !.exprStart = TRUE,
                           !.macroEligible = TRUE, !.inSwap = FALSE],
                "punctuation")

dotToken(l, p, st) ==
  IF charAt(l, p + 1) = "."
    THEN Result(p + 1, setFlags(st, FALSE, FALSE), "operator")
    ELSE Result(p + 1,
                [st EXCEPT !.afterDot = TRUE, !.exprStart = FALSE,
                           !.macroEligible = FALSE, !.inSwap = FALSE],
                "punctuation")

identifierStyle(l, p, st) ==
  IF shouldKeyword(l, p, st) THEN "keyword"
  ELSE IF st.afterDot THEN "propertyName"
  ELSE IF st.inSwap THEN "variableName.special"
  ELSE "variableName"

identifierToken(l, p, st) ==
  LET q == p + 1 + runLen(l, p + 1, identifierPart)
      sty == identifierStyle(l, q, st)
  IN Result(q,
            IF sty = "keyword"
              THEN [st EXCEPT !.exprStart = TRUE, !.macroEligible = FALSE,
                              !.macroLocked = TRUE, !.afterDot = FALSE,
                              !.inSwap = FALSE]
              ELSE [st EXCEPT !.exprStart = FALSE, !.macroEligible = FALSE,
                              !.afterDot = FALSE, !.inSwap = FALSE],
            sty)

\* mutant: the fallback branch without its stream.next()
fallbackToken_NoNext(l, p, st) == Result(p, setFlags(st, FALSE, FALSE), "null")

\* mutant: the unclassified character leaves the flags as they are
fallbackToken_KeepFlags(l, p, st) == Result(p + 1, st, "null")

\* a character no branch recognises
fallbackToken(l, p, st) == Result(p + 1, setFlags(st, FALSE, FALSE), "null")

\* token from const ch = stream.peek() on
dispatch(l, p, st) ==
  LET ch == charAt(l, p)
  IN IF ch = "" THEN Result(p, st, "null")
     ELSE IF ch = "#" THEN Result(Len(l), statementBoundary(st), "comment")
     ELSE IF ch = "," THEN Result(p + 1, statementBoundary(st), "punctuation")
     ELSE IF ch \in delimiters THEN bracketToken(l, p, st)
     ELSE IF ch = "@"
       THEN Result(p + 1 + runLen(l, p + 1, identifierPart),
                   setFlags(st, TRUE, FALSE), "annotation")
     ELSE IF matchesAny(l, p, multiCharOps)
       THEN Result(p + 3, setFlags(st, FALSE, FALSE), "operator")
     ELSE IF matchesAny(l, p, pairedOps)
       THEN Result(p + 2, setFlags(st, TRUE, TRUE), "operator")
     ELSE IF ch = "&" THEN ampersandToken(l, p, st)
     ELSE IF \E i \in 1..Len(singleOps) : matchStr(l, p, <<singleOps[i]>>)
       THEN Result(p + 1, setFlags(st, TRUE, TRUE), "operator")
     ELSE IF ch = "." THEN dotToken(l, p, st)
     ELSE IF ch \in identifierStart THEN identifierToken(l, p, st)
     ELSE IF ch \in operatorChars
       THEN Result(p + 1, setFlags(st, TRUE, TRUE), "operator")
     ELSE fallbackToken(l, p, st)

\* token from stream.eatSpace() on
tokenOutsideString(l, p, st) ==
  LET sp == runLen(l, p, WhiteSpace)
      num == readNumber(l, p, st)
      str == startString(l, p, st)
  IN IF sp > 0 THEN Result(p + sp, st, "null")
     ELSE IF num.style # "null" THEN num
     ELSE IF str.style # "null" THEN readString(l, str.pos, str.st)
     ELSE dispatch(l, p, st)

\* mutant: the line-start reset comes before the check for an open string
token_ResetFirst(l, p, st) ==
  IF st.string.open THEN readString(l, p, lineStart(p, st))
  ELSE tokenOutsideString(l, p, lineStart(p, st))

\* ravenParser.token
token(l, p, st) ==
  IF st.string.open THEN readString(l, p, st)
  ELSE tokenOutsideString(l, p, lineStart(p, st))

\* ----------------------------------------------------------------- driver

\* the documents: every line is over chars, at most len long, and nests
\* brackets at most depth deep
BroadChars ==
  {"a", "0", "x", " ", "\t", BackSlash, DoubleQuote, BackTick, "#", ",",
   "@", ".", "&", "|", "=", "-", "!", ">", "?", "$"}

StrChars == {BackSlash, DoubleQuote, BackTick, "a", " "}

NestChars == {"(", ")", "[", "}", "a", DoubleQuote}

BrChars == {"(", ")", "}", "a", " ", ",", DoubleQuote}

\* identifiers before strings and calls, before numbers and dots, before
\* separators and operators, and before brackets and annotations
KwStrChars == {"a", " ", BackSlash, BackTick}

KwNumChars == {"a", " ", "-", "1", ".", "&"}

KwSepChars == {"a", " ", "#", ",", ")", "="}

KwBrChars == {"a", " ", "(", "[", "{", "@"}

LockChars == {"a", " ", "=", DoubleQuote}

OpsChars == {".", "&", "|", "=", "!", ">", "<", "a", "1"}

InertChars == {DoubleQuote, "#", "(", ")", ",", "&", "a"}

LockNestChars == {"a", "=", "{", "}"}

Broad == [chars |-> BroadChars, len |-> LenBroad, depth |-> DepthBroad]

Str == [chars |-> StrChars, len |-> LenStr, depth |-> DepthStr]

Nest == [chars |-> NestChars, len |-> LenBr, depth |-> DepthBroad]

Br == [chars |-> BrChars, len |-> LenBr, depth |-> DepthBr]

KwStr == [chars |-> KwStrChars, len |-> LenKw, depth |-> DepthKw]

KwNum == [chars |-> KwNumChars, len |-> LenKw, depth |-> DepthKw]

KwSep == [chars |-> KwSepChars, len |-> LenKw, depth |-> DepthKw]

KwBr == [chars |-> KwBrChars, len |-> LenKw, depth |-> DepthKw]

Lock == [chars |-> LockChars, len |-> LenLock, depth |-> DepthLock]

Ops == [chars |-> OpsChars, len |-> LenOps, depth |-> DepthOps]

Inert == [chars |-> InertChars, len |-> LenInert, depth |-> DepthInert]

LockNest == [chars |-> LockNestChars, len |-> LenLockNest, depth |-> DepthLockNest]

openCount(l) == Cardinality({i \in 1..Len(l) : l[i] \in openers})

\* the sequence s with its last element replaced by b
setTop(s, b) == [s EXCEPT ![Len(s)] = b]

\* the effective state a token call classifies in: token resets the flags
\* at the start of a line unless a string is open
atCall(p, st) == IF st.string.open THEN st ELSE lineStart(p, st)

InitWith(profiles) ==
  /\ sigma \in profiles
  /\ line = <<>>
  /\ pos = 0
  /\ start = 0
  /\ state = startState
  /\ style = "null"
  /\ op = "start"
  /\ prev = startState
  /\ depth = 0
  /\ saved = <<>>
  /\ surplus = FALSE
  /\ matched = <<>>
  /\ calls = 0
  /\ lock = [atCall |-> <<FALSE>>, now |-> <<FALSE>>]

\* for (const line of doc.split(/\r?\n/)): a non-empty line, new StringStream
NewLine ==
  /\ op \in {"start", "endLine", "blankLine"}
  /\ \E n \in 1..sigma.len :
       \E l \in [1..n -> sigma.chars] :
         /\ Len(state.macroLockStack) + openCount(l) <= sigma.depth
         /\ line' = l
  /\ pos' = 0
  /\ start' = 0
  /\ style' = "null"
  /\ op' = "newline"
  /\ prev' = state
  /\ matched' = <<>>
  /\ calls' = 0
  /\ lock' = [atCall |-> lock.now, now |-> lock.now]
  /\ UNCHANGED <<state, sigma, depth, saved, surplus>>

\* if (line === "" && ravenParser.blankLine) ravenParser.blankLine(state, 2)
BlankLine ==
  /\ op \in {"start", "endLine", "blankLine"}
  /\ line' = <<>>
  /\ pos' = 0
  /\ start' = 0
  /\ style' = "null"
  /\ op' = "blankLine"
  /\ prev' = state
  /\ state' = blankLine(state)
  /\ matched' = <<>>
  /\ calls' = 0
  /\ lock' = [atCall |-> lock.now, now |-> setTop(lock.now, FALSE)]
  /\ UNCHANGED <<sigma, depth, saved, surplus>>

\* while (!stream.eol()) { style = token(stream, state); stream.start = stream.pos }
Token ==
  /\ ~eol(line, pos)
  /\ LET r == token(line, pos, state)
         ch == charAt(line, pos)
         isOpen == r.style = "bracket" /\ ch \in openers
         isClose == r.style = "bracket" /\ ch \notin openers
     IN /\ pos' = r.pos
        /\ state' = r.st
        /\ style' = r.style
        /\ depth' = IF isOpen THEN depth + 1
                    ELSE IF isClose /\ depth > 0 THEN depth - 1
                    ELSE depth
        /\ saved' = IF isOpen THEN Append(saved, atCall(pos, state).macroLocked)
                    ELSE IF isClose /\ saved # <<>>
                      THEN SubSeq(saved, 1, Len(saved) - 1)
                    ELSE saved
        /\ surplus' = (surplus \/ (isClose /\ depth = 0))
        /\ matched' = IF isClose /\ saved # <<>>
                        THEN <<saved[Len(saved)]>>
                        ELSE <<>>
        /\ lock' = LET met == IF ~state.string.open /\ sol(pos)
                                THEN setTop(lock.now, FALSE)
                                ELSE lock.now
                   IN [atCall |-> met,
                       now |-> IF r.style = "keyword" THEN setTop(met, TRUE)
                               ELSE IF \/ r.style = "comment"
                                       \/ r.style = "punctuation" /\ ch = ","
                                 THEN setTop(met, FALSE)
                               ELSE IF isOpen THEN Append(met, FALSE)
                               ELSE IF isClose
                                 THEN IF Len(met) > 1
                                        THEN SubSeq(met, 1, Len(met) - 1)
                                        ELSE <<FALSE>>
                               ELSE met]
  /\ calls' = calls + 1
  /\ start' = pos
  /\ op' = "token"
  /\ prev' = state
  /\ UNCHANGED <<line, sigma>>

\* stream.eol(): the while loop ends and the stream of the line is dropped
EndLine ==
  /\ op = "token"
  /\ eol(line, pos)
  /\ line' = <<>>
  /\ pos' = 0
  /\ start' = 0
  /\ style' = "null"
  /\ op' = "endLine"
  /\ prev' = state
  /\ matched' = <<>>
  /\ calls' = 0
  /\ lock' = [atCall |-> lock.now, now |-> lock.now]
  /\ UNCHANGED <<state, sigma, depth, saved, surplus>>

Next == NewLine \/ BlankLine \/ Token \/ EndLine

Spec == InitWith({Broad, Nest}) /\ [][Next]_vars

SpecStr == InitWith({Str}) /\ [][Next]_vars

SpecBr == InitWith({Br}) /\ [][Next]_vars

SpecKw == InitWith({KwStr, KwNum, KwSep, KwBr, Lock}) /\ [][Next]_vars

SpecNum == InitWith({KwNum}) /\ [][Next]_vars

SpecLock == InitWith({Lock, LockNest}) /\ [][Next]_vars

SpecOps == InitWith({Ops}) /\ [][Next]_vars

SpecInert == InitWith({Inert}) /\ [][Next]_vars

\* ------------------------------------------------------------------ claims

\* the last operation was a token call
tokenCalled == op = "token"

\* the state the last token call classified in (after its line-start reset)
callState == atCall(start, prev)

closers == delimiters \ openers

\* C1: every token call made before the end of the line moves the stream
\* position forward by at least one character and never past the end of the
\* line, whether or not a string is open; so the calls made on a line never
\* outnumber the characters consumed, which never outnumber the line.
C1_ForwardProgress ==
  /\ tokenCalled => pos >= start + 1
  /\ calls <= pos
  /\ pos <= Len(line)

\* a call made inside an open string that consumed exactly one character
\* of a longer line
C1_Witness ==
  /\ tokenCalled
  /\ prev.string.open
  /\ pos = start + 1
  /\ Len(line) > pos

\* C2: while no closing bracket has arrived without an open bracket to match,
\* the length of macroLockStack equals the number of brackets opened and not
\* yet closed, after every token, line and blank line; so it is empty when
\* that number is back to zero.
C2_StackBalance == ~surplus => Len(state.macroLockStack) = depth

\* a closing bracket at the start of a line brings a well-nested document
\* back to depth zero
C2_Witness ==
  /\ tokenCalled
  /\ style = "bracket"
  /\ ~surplus
  /\ start = 0
  /\ depth = 0
  /\ state.macroLockStack = <<>>

\* C3: after an opening bracket macroLocked is false, and after a closing
\* bracket that matches an opening bracket macroLocked is the value it had
\* when that opening bracket was read.
C3_RestoreOnExit ==
  (tokenCalled /\ style = "bracket") =>
    /\ charAt(line, start) \in openers => ~state.macroLocked
    /\ matched # <<>> => state.macroLocked = matched[1]

\* a closing bracket at the start of a line restores macroLocked = true
C3_Witness ==
  /\ tokenCalled
  /\ style = "bracket"
  /\ matched = <<TRUE>>
  /\ start = 0
  /\ state.macroLocked

\* C4: a closing bracket read outside a string while macroLockStack is empty
\* is a bracket token of one character that leaves macroLocked false and the
\* stack empty; and once surplus closing brackets have occurred the stack
\* length still equals the number of open brackets, so the next opening
\* bracket makes it 1.
C4_Underflow ==
  /\ (/\ tokenCalled
      /\ ~prev.string.open
      /\ charAt(line, start) \in closers
      /\ prev.macroLockStack = <<>>)
     => /\ style = "bracket"
        /\ pos = start + 1
        /\ ~state.macroLocked
        /\ state.macroLockStack = <<>>
  /\ surplus => Len(state.macroLockStack) = depth

\* an opening bracket read after a surplus closing bracket: the stack holds
\* exactly one entry
C4_Witness ==
  /\ tokenCalled
  /\ style = "bracket"
  /\ surplus
  /\ charAt(line, start) \in openers
  /\ prev.macroLockStack = <<>>
  /\ Len(state.macroLockStack) = 1

\* the string the last token call scanned: the one open before the call,
\* or the one the token text opens with its backslashes and quote
openSlashes ==
  IF prev.string.open THEN prev.string.slashes
  ELSE runLen(line, start, {BackSlash})

openQuote ==
  IF prev.string.open THEN prev.string.quote
  ELSE charAt(line, start + openSlashes)

\* where the last token call began to scan string content
contentStart == IF prev.string.open THEN start ELSE start + openSlashes + 1

\* the quote followed by as many backslashes as opened the string
expectedClose == <<openQuote>> \o repeatSlash(openSlashes)

\* the positions at which the readString loop iterates, from p on
RECURSIVE scanPositions(_, _, _)
scanPositions(l, p, info) ==
  IF eol(l, p) THEN {}
  ELSE {p} \cup (IF stringStep(l, p, info).closed THEN {}
                 ELSE scanPositions(l, stringStep(l, p, info).pos, info))

scanned ==
  scanPositions(line, contentStart,
                IF prev.string.open THEN prev.string
                ELSE newStringState(openQuote, openSlashes))

\* C5: a string token that closes its string ends with the opening quote
\* character followed by exactly as many backslashes as preceded the opening
\* quote, and that close sequence lies wholly in the content; a string token
\* that does not end so leaves the string context set, with the same quote
\* and run length, at the end of the line.
C5_EscapeRunRoundTrip ==
  (tokenCalled /\ style = "string") =>
    IF state.string.open
      THEN /\ pos = Len(line)
           /\ state.string.quote = openQuote
           /\ state.string.slashes = openSlashes
           /\ prev.string.open => state.string = prev.string
      ELSE /\ pos - Len(expectedClose) >= contentStart
           /\ SubSeq(line, pos - openSlashes, pos) = expectedClose

\* a string opened with at least one backslash closes after its content held
\* the quote character followed by fewer backslashes
C5_Witness ==
  /\ tokenCalled
  /\ style = "string"
  /\ ~state.string.open
  /\ openSlashes >= 1
  /\ \E i \in contentStart..(pos - Len(expectedClose) - 1) :
       /\ charAt(line, i) = openQuote
       /\ ~matchStr(line, i, expectedClose)

\* C6: in a double-quote string, at every position where the readString
\* loop finds the escape sequence (max(1,k) backslashes) and not the close
\* sequence, the loop goes on at the position after the escape sequence and
\* the one character that follows it (or at the end of the line), so the
\* string does not close at the character after an escape sequence.
C6_EscapeProtectsNext ==
  (tokenCalled /\ style = "string" /\ openQuote = DoubleQuote) =>
    \A p \in scanned :
      LET esc == repeatSlash(Max(1, openSlashes))
          nxt == Min(p + Len(esc) + 1, Len(line))
      IN (matchStr(line, p, esc) /\ ~matchStr(line, p, expectedClose)) =>
           /\ pos >= nxt
           /\ nxt < Len(line) => nxt \in scanned
           /\ \A r \in scanned : ~(p < r /\ r < nxt)
           /\ ~state.string.open => pos - Len(expectedClose) # p + Len(esc)

\* on a line that began inside a double-quote string, the close sequence
\* stands right after an escape sequence and does not close the string
\* there; the string closes later
C6_Witness ==
  /\ tokenCalled
  /\ style = "string"
  /\ openQuote = DoubleQuote
  /\ prev.string.open
  /\ ~state.string.open
  /\ \E p \in scanned :
       LET esc == repeatSlash(Max(1, openSlashes))
       IN /\ matchStr(line, p, esc)
          /\ matchStr(line, p + Len(esc), expectedClose)
          /\ pos > p + Len(esc) + Len(expectedClose)

\* C7: a backtick string closes at the first place at or after the start of
\* its content where backtick followed by k backslashes stands, whatever
\* precedes that place, and the token ends right after it; with no such
\* place the token runs to the end of the line and the string stays open.
C7_RawNeverEscapes ==
  (tokenCalled /\ style = "string" /\ openQuote = BackTick) =>
    LET occ == {i \in contentStart..(Len(line) - 1) :
                  matchStr(line, i, expectedClose)}
    IN IF occ = {}
         THEN pos = Len(line) /\ state.string.open
         ELSE /\ ~state.string.open
              /\ pos - Len(expectedClose) \in occ
              /\ \A i \in occ : i >= pos - Len(expectedClose)

\* a whole backtick literal read as one token, its closing backtick
\* directly preceded by a backslash
C7_Witness ==
  /\ tokenCalled
  /\ style = "string"
  /\ openQuote = BackTick
  /\ ~prev.string.open
  /\ ~state.string.open
  /\ pos - Len(expectedClose) > contentStart
  /\ charAt(line, pos - Len(expectedClose) - 1) = BackSlash

\* C8: a token call made while a string is open returns string and applies
\* no line-start reset; a call that leaves a string open has reached the end
\* of the line, returns string and, when the string was open before, changes
\* nothing in the state; starting a line, ending one and blankLine leave the
\* string context as it is.
C8_StringsSpanLines ==
  /\ (tokenCalled /\ prev.string.open) =>
       /\ style = "string"
       /\ state.afterDot = prev.afterDot
       /\ state.inSwap = prev.inSwap
       /\ state.macroLocked = prev.macroLocked
       /\ state.macroLockStack = prev.macroLockStack
       /\ state.string.open => state = prev
  /\ (tokenCalled /\ state.string.open) =>
       /\ style = "string"
       /\ pos = Len(line)
  /\ op \in {"newline", "endLine"} => state = prev
  /\ op = "blankLine" => state.string = prev.string

\* the first token of a line that began inside a string opened while
\* macroLocked was true: the string stays open and nothing is reset
C8_Witness ==
  /\ tokenCalled
  /\ start = 0
  /\ prev.string.open
  /\ state.string.open
  /\ state.macroLocked
  /\ ~state.exprStart

\* the last token call began at an identifier-start character outside a
\* string: it read an identifier
identifierRead ==
  /\ tokenCalled
  /\ ~prev.string.open
  /\ charAt(line, start) \in identifierStart

\* optional backslashes, then a quote, stand at position i of the line
stringOpenerAt(i) ==
  \E k \in 0..Len(line) :
    /\ \A j \in i..(i + k - 1) : charAt(line, j) = BackSlash
    /\ charAt(line, i + k) \in Quotes

\* the positions after the identifier that hold no space, tab or return
nonSpaceAhead == {i \in pos..(Len(line) - 1) : line[i + 1] \notin {" ", "\t", "\r"}}

\* the position of the first of them
firstAhead == CHOOSE i \in nonSpaceAhead : \A j \in nonSpaceAhead : i <= j

\* the operators that begin no argument
plainOperatorAt(i) ==
  \/ charAt(line, i) \in {"=", "+", "*", "/", "^", "<", ">", ":", "|", "!"}
  \/ charAt(line, i) = "-" /\ charAt(line, i + 1) \notin Digits

\* the identifier is a call, a property access, a string tag or a plain
\* reference
refusedByFollower ==
  \/ charAt(line, pos) \in {"(", "[", "."}
  \/ stringOpenerAt(pos)
  \/ nonSpaceAhead = {}
  \/ /\ nonSpaceAhead # {}
     /\ \/ charAt(line, firstAhead) \in {"#", ",", ")", "]", "}"}
        \/ plainOperatorAt(firstAhead)

\* C9: an identifier directly followed by ( [ . or a string opener, or whose
\* first following non-space character is absent, a comment marker, a comma,
\* a closing bracket or an operator that begins no argument, is never
\* classified keyword, whatever the flags are.
C9_CallsAreNotKeywords ==
  (identifierRead /\ refusedByFollower) =>
    style \in {"variableName", "propertyName", "variableName.special"}

\* at statement start an identifier directly followed by backslashes and a
\* quote is a plain variable
C9_Witness ==
  /\ identifierRead
  /\ callState.exprStart
  /\ callState.macroEligible
  /\ ~callState.macroLocked
  /\ charAt(line, pos) = BackSlash
  /\ stringOpenerAt(pos)
  /\ style = "variableName"

\* the character at position i can begin an argument
beginsArgument(i) ==
  LET c == charAt(line, i)
  IN \/ c \in identifierStart
     \/ c \in Digits
     \/ c = "." /\ charAt(line, i + 1) \in Digits
     \/ c \in {"(", "[", "{"}
     \/ c = "@"
     \/ c \in Quotes
     \/ c = BackSlash /\ stringOpenerAt(i)
     \/ c = "&"
     \/ c = "-" /\ charAt(line, i + 1) \in Digits

\* the promotion condition, as the flags stand when the identifier is read
promotable ==
  /\ callState.exprStart
  /\ callState.macroEligible
  /\ ~callState.afterDot
  /\ ~callState.inSwap
  /\ ~callState.macroLocked
  /\ charAt(line, pos) \notin {"(", "[", "."}
  /\ ~stringOpenerAt(pos)
  /\ nonSpaceAhead # {}
  /\ charAt(line, firstAhead) # "#"
  /\ beginsArgument(firstAhead)

\* C10: an identifier token covers the longest run of identifier characters
\* and is keyword exactly when the promotion condition holds; then exprStart
\* is true, macroEligible false and macroLocked true; otherwise it is
\* propertyName after a dot, else variableName.special in a swap, else
\* variableName, exprStart and macroEligible are false and macroLocked keeps
\* its value; afterDot and inSwap are false afterwards in both cases.
C10_KeywordPromotion ==
  identifierRead =>
    /\ pos = start + 1 + runLen(line, start + 1, identifierPart)
    /\ style = "keyword" <=> promotable
    /\ promotable =>
         /\ state.exprStart
         /\ ~state.macroEligible
         /\ state.macroLocked
    /\ ~promotable =>
         /\ style = IF callState.afterDot THEN "propertyName"
                    ELSE IF callState.inSwap THEN "variableName.special"
                    ELSE "variableName"
         /\ ~state.exprStart
         /\ ~state.macroEligible
         /\ state.macroLocked = callState.macroLocked
    /\ ~state.afterDot
    /\ ~state.inSwap

\* an identifier that only macroLocked keeps from being a keyword
C10_Witness ==
  /\ identifierRead
  /\ callState.exprStart
  /\ callState.macroEligible
  /\ callState.macroLocked
  /\ ~callState.afterDot
  /\ ~callState.inSwap
  /\ nonSpaceAhead # {}
  /\ beginsArgument(firstAhead)
  /\ charAt(line, pos) = " "
  /\ style = "variableName"

\* ------------------------------------------------------------------ C11

\* the flags put the identifier in statement-start position
statementStart ==
  /\ callState.exprStart
  /\ callState.macroEligible
  /\ ~callState.afterDot
  /\ ~callState.inSwap
  /\ ~callState.macroLocked

\* whitespace separates the identifier from a string opener
stringAfterSpace ==
  /\ charAt(line, pos) \in {" ", "\t", "\r"}
  /\ nonSpaceAhead # {}
  /\ stringOpenerAt(firstAhead)

\* C11 as stated: an identifier in statement-start position whose following
\* text, after skipping whitespace, is the start of a string literal is not
\* classified keyword.
C11_RefusedAfterWhitespace ==
  (identifierRead /\ statementStart /\ nonSpaceAhead # {} /\ stringOpenerAt(firstAhead)) =>
    style # "keyword"

\* C11: an identifier in statement-start position is refused promotion when
\* the start of a string literal (optional backslashes, then a quote) stands
\* directly after it; when whitespace separates the two, the string opener
\* begins an argument and the identifier is classified keyword.
C11_StringTagRefusal ==
  (identifierRead /\ statementStart) =>
    /\ stringOpenerAt(pos) => style = "variableName"
    /\ stringAfterSpace => style = "keyword"

\* an identifier at statement start, a space, then backslash and quote: the
\* identifier was promoted
C11_Witness ==
  /\ identifierRead
  /\ statementStart
  /\ stringAfterSpace
  /\ charAt(line, firstAhead) = BackSlash
  /\ style = "keyword"

\* ------------------------------------------------------------------ C12

\* a keyword was read earlier at the bracket level of the last token call,
\* and no comma, comment, line start outside a string or blank line came
\* between
keywordPending == lock.atCall[Len(lock.atCall)]

\* C12: once an identifier is promoted to keyword, no later identifier at
\* the same bracket nesting level is promoted before a statement boundary
\* (a comma, a comment, the start of a line with no open string, a blank
\* line): such an identifier is a variable, a property or a swap target.
C12_MacroLock ==
  (identifierRead /\ keywordPending) =>
    style \in {"variableName", "propertyName", "variableName.special"}

\* a keyword was read before a string that ran on to this line; after the
\* string and an operator, an identifier that stands before a space and an
\* argument stays a variable
C12_Witness ==
  /\ identifierRead
  /\ keywordPending
  /\ callState.exprStart
  /\ callState.macroEligible
  /\ charAt(line, 0) = DoubleQuote
  /\ charAt(line, 1) = "="
  /\ start = 2
  /\ charAt(line, pos) = " "
  /\ nonSpaceAhead # {}
  /\ beginsArgument(firstAhead)
  /\ style = "variableName"

\* ------------------------------------------------------------------ C13

\* the last token call began, outside a string, at a minus sign that stands
\* directly before a digit
minusBeforeDigit ==
  /\ tokenCalled
  /\ ~prev.string.open
  /\ charAt(line, start) = "-"
  /\ charAt(line, start + 1) \in Digits

\* the last token call began, outside a string, at a digit that stands
\* directly after a minus sign
digitAfterMinus ==
  /\ tokenCalled
  /\ ~prev.string.open
  /\ start > 0
  /\ charAt(line, start - 1) = "-"
  /\ charAt(line, start) \in Digits

\* the end of digits[.digits] beginning at position i
literalEnd(i) ==
  LET d == runLen(line, i, Digits)
  IN IF charAt(line, i + d) = "."
       THEN i + d + 1 + runLen(line, i + d + 1, Digits)
       ELSE i + d

\* C13: a minus sign directly before digits is read together with them,
\* and an optional fraction, as one number token exactly when exprStart is
\* true; otherwise the minus sign alone is an operator, and the digits that
\* follow it are a number token of their own.
C13_SignedLiterals ==
  /\ minusBeforeDigit =>
       /\ style = "number" <=> callState.exprStart
       /\ style = "number" => pos = literalEnd(start + 1)
       /\ style # "number" => style = "operator" /\ pos = start + 1
  /\ digitAfterMinus => style = "number"

\* after a keyword and a space, -1 is one number token
C13_Witness ==
  /\ minusBeforeDigit
  /\ callState.exprStart
  /\ callState.macroLocked
  /\ charAt(line, start - 1) = " "
  /\ style = "number"
  /\ pos = start + 2

\* ------------------------------------------------------------------ C14

\* the last token call began, outside a string, at an & that no & follows
ampersandRead ==
  /\ tokenCalled
  /\ ~prev.string.open
  /\ charAt(line, start) = "&"
  /\ charAt(line, start + 1) # "&"

RECURSIVE ampersandsBefore(_)
\* how many & stand in a row directly before position i
ampersandsBefore(i) ==
  IF i > 0 /\ charAt(line, i - 1) = "&" THEN 1 + ampersandsBefore(i - 1) ELSE 0

\* a single & stands directly before the identifier: the & before it are
\* odd in number, since they pair up from the left as &&
swapTarget == ampersandsBefore(start) % 2 = 1

\* C14: a single & directly followed by an identifier-start character is an
\* operator that sets inSwap and leaves exprStart and macroEligible as they
\* were; the identifier after it is variableName.special, never keyword, and
\* clears inSwap.  A single & followed by anything else, or by the end of
\* the line, is an operator that sets exprStart and macroEligible and does
\* not set inSwap.
C14_SwapReference ==
  /\ ampersandRead =>
       /\ style = "operator"
       /\ pos = start + 1
       /\ IF charAt(line, start + 1) \in identifierStart
            THEN /\ state.inSwap
                 /\ state.exprStart = callState.exprStart
                 /\ state.macroEligible = callState.macroEligible
            ELSE /\ state.exprStart
                 /\ state.macroEligible
                 /\ state.inSwap = callState.inSwap
                 /\ ~state.inSwap
  /\ (identifierRead /\ swapTarget) =>
       /\ style = "variableName.special"
       /\ prev.inSwap
       /\ ~state.inSwap

\* at the start of a line, & and an identifier before a space and an
\* argument: the identifier would be a keyword but for the swap
C14_Witness ==
  /\ identifierRead
  /\ swapTarget
  /\ start = 1
  /\ callState.exprStart
  /\ callState.macroEligible
  /\ ~callState.macroLocked
  /\ charAt(line, pos) = " "
  /\ nonSpaceAhead # {}
  /\ beginsArgument(firstAhead)
  /\ style = "variableName.special"

\* ------------------------------------------------------------------ C15

\* the flags of st are those of a statement start
atStatementStart(st) ==
  /\ st.exprStart
  /\ st.macroEligible
  /\ ~st.afterDot
  /\ ~st.inSwap
  /\ ~st.macroLocked

\* the state a line begins in when only the bracket stack of prev is kept
freshWithStack == [startState EXCEPT !.macroLockStack = prev.macroLockStack]

\* the last operation was the first token call of a line that began with no
\* string open
firstCallOfLine ==
  /\ tokenCalled
  /\ start = 0
  /\ ~prev.string.open

\* C15: the initial state has exprStart and macroEligible true, the other
\* flags false, an empty stack and no open string.  blankLine sets the flags
\* to those of a statement start and changes neither macroLockStack nor the
\* string context.  The first token call of a line that begins with no open
\* string classifies with the flags of a statement start, whatever they were
\* before, and with the stack and string context it met: its outcome is that
\* of classifying in the initial state with the stack of before; when it
\* only skips whitespace the flags are left at statement start and the stack
\* and string context are unchanged.
C15_StatementReset ==
  /\ op = "start" =>
       /\ atStatementStart(state)
       /\ state.macroLockStack = <<>>
       /\ ~state.string.open
  /\ op = "blankLine" =>
       /\ atStatementStart(state)
       /\ state.macroLockStack = prev.macroLockStack
       /\ state.string = prev.string
  /\ firstCallOfLine =>
       LET r == tokenOutsideString(line, 0, freshWithStack)
       IN /\ state = r.st
          /\ style = r.style
          /\ pos = r.pos
  /\ (firstCallOfLine /\ charAt(line, 0) \in WhiteSpace) =>
       /\ style = "null"
       /\ atStatementStart(state)
       /\ state.macroLockStack = prev.macroLockStack
       /\ state.string = prev.string

\* a blank line after a line that ended locked inside a bracket, with no
\* flag at its statement-start value
C15_Witness ==
  /\ op = "blankLine"
  /\ prev.macroLocked
  /\ ~prev.exprStart
  /\ ~prev.macroEligible
  /\ prev.macroLockStack # <<>>
  /\ atStatementStart(state)

\* ------------------------------------------------------------------ C16

\* the token categories
Categories ==
  {"keyword", "variableName", "variableName.special", "propertyName",
   "number", "string", "operator", "bracket", "punctuation", "annotation",
   "comment"}

\* the character at position i belongs to no class the lexer recognises
unclassifiedAt(i) ==
  LET c == charAt(line, i)
  IN /\ c # ""
     /\ c \notin WhiteSpace
     /\ c \notin Digits
     /\ ~stringOpenerAt(i)
     /\ c \notin {"#", ",", "@", "."}
     /\ c \notin delimiters
     /\ c \notin operatorChars
     /\ c \notin identifierStart

\* C16: every token call returns one of the token categories or none; a
\* call that begins, outside a string, at a character of no recognised class
\* consumes that character alone, returns none, and leaves exprStart,
\* macroEligible, afterDot and inSwap false.
C16_NeverFails ==
  /\ tokenCalled => style \in Categories \cup {"null"}
  /\ (tokenCalled /\ ~prev.string.open /\ unclassifiedAt(start)) =>
       /\ style = "null"
       /\ pos = start + 1
       /\ ~state.exprStart
       /\ ~state.macroEligible
       /\ ~state.afterDot
       /\ ~state.inSwap
       /\ state.macroLocked = callState.macroLocked
       /\ state.macroLockStack = prev.macroLockStack
       /\ ~state.string.open

\* a backslash that opens no string, read after a dot, where afterDot was
\* set
C16_Witness ==
  /\ tokenCalled
  /\ ~prev.string.open
  /\ unclassifiedAt(start)
  /\ charAt(line, start) = BackSlash
  /\ prev.afterDot
  /\ style = "null"
  /\ ~state.afterDot

\* ------------------------------------------------------------------ C18

\* the last token call began outside a string
readOutsideString == tokenCalled /\ ~prev.string.open

\* three dots stand at position i
ellipsisAt(i) ==
  /\ charAt(line, i) = "."
  /\ charAt(line, i + 1) = "."
  /\ charAt(line, i + 2) = "."

\* one of == != >= <= && || |> stands at position i
pairedAt(i) ==
  <<charAt(line, i), charAt(line, i + 1)>> \in
    {<<"=", "=">>, <<"!", "=">>, <<">", "=">>, <<"<", "=">>, <<"&", "&">>,
     <<"|", "|">>, <<"|", ">">>}

\* C18: a token call that begins, outside a string, at three dots consumes
\* exactly the three as one operator and leaves exprStart and macroEligible
\* false; one that begins at == != >= <= && || or |> consumes both
\* characters as one operator and leaves exprStart and macroEligible true;
\* && sets no swap, and an identifier after it is no swap target.
C18_LongestMatch ==
  /\ (readOutsideString /\ ellipsisAt(start)) =>
       /\ style = "operator"
       /\ pos = start + 3
       /\ ~state.exprStart
       /\ ~state.macroEligible
  /\ (readOutsideString /\ pairedAt(start)) =>
       /\ style = "operator"
       /\ pos = start + 2
       /\ state.exprStart
       /\ state.macroEligible
       /\ ~state.inSwap
  /\ (identifierRead /\ ampersandsBefore(start) = 2) =>
       /\ ~callState.inSwap
       /\ style # "variableName.special"

\* && read as one operator after a number, where exprStart and
\* macroEligible were false
C18_Witness ==
  /\ readOutsideString
  /\ pairedAt(start)
  /\ charAt(line, start) = "&"
  /\ ~callState.exprStart
  /\ ~callState.macroEligible
  /\ style = "operator"
  /\ pos = start + 2
  /\ state.exprStart
  /\ state.macroEligible
  /\ ~state.inSwap

\* ------------------------------------------------------------------ C19

\* the last token call began, outside a string, at a dot that no dot
\* follows and that begins no leading-dot number
dotRead ==
  /\ readOutsideString
  /\ charAt(line, start) = "."
  /\ charAt(line, start + 1) # "."
  /\ ~(callState.exprStart /\ charAt(line, start + 1) \in Digits)

\* the last token call skipped whitespace inside a line
spaceRead ==
  /\ readOutsideString
  /\ start > 0
  /\ charAt(line, start) \in WhiteSpace

\* a dot that ends neither a number nor a run of dots stands before the
\* identifier, with nothing but whitespace between the two
dotBefore ==
  \E j \in 0..(start - 1) :
    /\ charAt(line, j) = "."
    /\ charAt(line, j - 1) \notin Digits \cup {"."}
    /\ \A k \in (j + 1)..(start - 1) : charAt(line, k) \in WhiteSpace

\* C19: a dot at a token boundary that is no part of an ellipsis, begins no
\* leading-dot number and is not followed by another dot is punctuation and
\* leaves afterDot true, exprStart and macroEligible false; whitespace
\* inside a line leaves afterDot, and the whole state, as it was; the
\* identifier read next is propertyName, never keyword, and clears afterDot.
C19_MemberAccess ==
  /\ dotRead =>
       /\ style = "punctuation"
       /\ pos = start + 1
       /\ state.afterDot
       /\ ~state.exprStart
       /\ ~state.macroEligible
  /\ spaceRead =>
       /\ style = "null"
       /\ state = prev
       /\ charAt(line, pos) \notin WhiteSpace
  /\ (identifierRead /\ (dotBefore \/ callState.afterDot)) =>
       /\ style = "propertyName"
       /\ prev.afterDot
       /\ ~state.afterDot

\* a dot, a space and an identifier: the identifier is a property name
C19_Witness ==
  /\ identifierRead
  /\ dotBefore
  /\ charAt(line, start - 1) = " "
  /\ charAt(line, start - 2) = "."
  /\ prev.afterDot
  /\ style = "propertyName"
  /\ ~state.afterDot

\* ------------------------------------------------------------------ C20

\* the last token call began with a string open
readInsideString == tokenCalled /\ prev.string.open

\* the last token call began, outside a string, at a string opener: the
\* characters after the opener are string content
stringOpened == readOutsideString /\ stringOpenerAt(start)

\* the last token call began, outside a string, at a comment marker
commentRead == readOutsideString /\ charAt(line, start) = "#"

\* the characters the last token call consumed
consumed == {charAt(line, i) : i \in start..(pos - 1)}

\* C20: a token call made while a string is open returns string and changes
\* no field of the state but the string context, exprStart and
\* macroEligible; a call that opens a string leaves macroLocked and
\* macroLockStack as it met them, whatever the content holds; a comment
\* marker outside a string makes the rest of the line one comment token and
\* leaves macroLockStack as it was.
C20_InertContent ==
  /\ readInsideString =>
       /\ style = "string"
       /\ state.afterDot = prev.afterDot
       /\ state.inSwap = prev.inSwap
       /\ state.macroLocked = prev.macroLocked
       /\ state.macroLockStack = prev.macroLockStack
  /\ stringOpened =>
       /\ style = "string"
       /\ state.macroLocked = callState.macroLocked
       /\ state.macroLockStack = prev.macroLockStack
  /\ commentRead =>
       /\ style = "comment"
       /\ pos = Len(line)
       /\ state.macroLockStack = prev.macroLockStack

\* inside a bracket and after a keyword, an open string takes a closing
\* bracket and a comma as content and then ends
C20_Witness ==
  /\ readInsideString
  /\ prev.macroLocked
  /\ prev.macroLockStack # <<>>
  /\ ")" \in consumed
  /\ "," \in consumed
  /\ ~state.string.open
  /\ state.macroLocked
  /\ state.macroLockStack = prev.macroLockStack

====
